---- MODULE Spec2Model ----
(* Model of health_check.py: the single-attempt evaluator                  *)
(* check_server_status and the retry loop of main.                         *)
(*                                                                         *)
(* The network is the environment: for every attempt it picks what the     *)
(* HTTP exchange does (Exchange).  urlopen and fp.read are modelled by     *)
(* what the Python 3 standard library does with that exchange, because the *)
(* module imports urllib.request / urllib.error (Python 3 only).           *)
EXTENDS Integers, Sequences, FiniteSets, TLC

(***************************************************************************)
(* Bounds                                                                  *)
(***************************************************************************)
MaxRetries == 3     \* largest max_retries tried (0 is tried as well)
MaxDelay   == 1     \* largest initial_delay / delay_between_tries, seconds
MaxBody    == 2     \* longest response body, in characters
MaxPat     == 1     \* longest expected_regexp, in characters
MaxTimeout == 2     \* largest timeout, seconds (the smallest is 1)

(***************************************************************************)
(* Values                                                                  *)
(***************************************************************************)
BodyChars == {"o", "k"}
PatChars  == {"o", "k", "."}          \* "." is the regex wildcard

RECURSIVE SeqsUpTo(_, _)
SeqsUpTo(S, n) ==
    IF n = 0 THEN {<<>>}
    ELSE LET shorter == SeqsUpTo(S, n - 1)
         IN  shorter \cup {Append(s, c) : s \in shorter, c \in S}

StatusCodes      == {200, 204, 404, 503}   \* final status after redirects
ExpectedStatuses == {200, 503}

\* Python values that matter for typing: None, str and bytes.
None         == [type |-> "NoneType", data |-> <<>>]
PyStr(s)     == [type |-> "str", data |-> s]
PyBytes(s)   == [type |-> "bytes", data |-> s]

\* module.params['expected_regexp']: default None, otherwise a str.
Regexps == {None} \cup {PyStr(p) : p \in SeqsUpTo(PatChars, MaxPat)}

\* bool(x) of None / a str.
Truthy(x) == x.type # "NoneType" /\ x.data # <<>>

\* What the network does up to the response headers (seen by urlopen) ...
NoResponseKinds == {"refused", "connect_timeout", "response_timeout"}
HeadOutcomes ==
    [kind : NoResponseKinds, status : {0}]
    \cup
    [kind : {"response"}, status : StatusCodes]

\* ... and what it does when the body is read (seen by fp.read()); Unread
\* stands for a body the evaluator never asked for.
BodyOutcomes ==
    [body : SeqsUpTo(BodyChars, MaxBody), read : {"ok", "timeout"}]
Unread == [body |-> <<>>, read |-> "unread"]

\* one request/response cycle
Exchange(head, tail) ==
    [kind |-> head.kind, status |-> head.status,
     body |-> tail.body, read |-> tail.read]

\* A message: a format text and the integers substituted into it.
Msg(t, a) == [text |-> t, args |-> a]
Mentions(m, n) == \E i \in DOMAIN m.args : m.args[i] = n

OK              == Msg("OK", <<>>)
EmptyInfo       == Msg("", <<>>)
ContentMismatch == Msg("Content did not match expected regexp.", <<>>)
StatusMismatch(expected, actual) ==
    Msg("Expected status %d, actual: %d", <<expected, actual>>)

(***************************************************************************)
(* urllib.request.urlopen(request, timeout=timeout)                        *)
(***************************************************************************)
\* Result of the call: either an exception (exc, with its str()) or a
\* response object whose getcode() is code.  fp = 1 when the call hands out
\* an open response: the return value, or the HTTPError, which wraps one.
urlopen(net) ==
    CASE net.kind = "refused" ->
            [exc |-> "URLError", code |-> 0, fp |-> 0,
             str |-> Msg("<urlopen error [Errno %d] Connection refused>", <<111>>)]
      [] net.kind = "connect_timeout" ->
            [exc |-> "URLError", code |-> 0, fp |-> 0,
             str |-> Msg("<urlopen error timed out>", <<>>)]
      [] net.kind = "response_timeout" ->
            [exc |-> "socket.timeout", code |-> 0, fp |-> 0,
             str |-> Msg("timed out", <<>>)]
      [] net.kind = "response" /\ ~(net.status \in 200..299) ->
            \* HTTPErrorProcessor hands every non-2xx response to the error
            \* handlers; the default one raises HTTPError.
            [exc |-> "HTTPError", code |-> net.status, fp |-> 1,
             str |-> Msg("HTTP Error %s: %s", <<net.status>>)]
      [] OTHER ->
            [exc |-> "none", code |-> net.status, fp |-> 1, str |-> EmptyInfo]

\* except (URLError, HTTPError, socket.error): socket.timeout is an OSError.
Caught(exc) == exc \in {"URLError", "HTTPError", "socket.timeout"}

\* fp.read(): the body as bytes, or socket.timeout when the body stalls.
fp_read(net) ==
    IF net.read = "timeout"
    THEN [exc |-> "socket.timeout", content |-> PyBytes(<<>>)]
    ELSE [exc |-> "none", content |-> PyBytes(net.body)]

(***************************************************************************)
(* re.match(pattern, string)                                               *)
(***************************************************************************)
\* The pattern consumes a prefix of s; "." matches any character.
RECURSIVE PrefixMatch(_, _)
PrefixMatch(pat, s) ==
    IF pat = <<>> THEN TRUE
    ELSE IF s = <<>> THEN FALSE
    ELSE /\ (Head(pat) = "." \/ Head(pat) = Head(s))
         /\ PrefixMatch(Tail(pat), Tail(s))

\* "match" (a match object), "None", or "TypeError": a str pattern cannot
\* be used on a bytes-like object and vice versa.
re_match(pattern, string) ==
    IF pattern.type # string.type THEN "TypeError"
    ELSE IF PrefixMatch(pattern.data, string.data) THEN "match"
    ELSE "None"

(***************************************************************************)
(* check_server_status                                                     *)
(***************************************************************************)
\* raised = "none": the function returned (success, info).
\* unclosed: 1 when urlopen handed out a response that fp.close() was not
\* called on.
Return(s, i, u) == [raised |-> "none", success |-> s, info |-> i, unclosed |-> u]
Raise(e, u)     == [raised |-> e, success |-> FALSE, info |-> EmptyInfo, unclosed |-> u]

\* does the evaluator get as far as fp.read()?
reads_body(net, expected_status) ==
    urlopen(net).exc = "none" /\ urlopen(net).code = expected_status

check_server_status(net, expected_status, expected_regexp) ==
    LET r == urlopen(net) IN
    IF r.exc # "none"
    THEN IF Caught(r.exc) THEN Return(FALSE, r.str, r.fp) ELSE Raise(r.exc, r.fp)
    ELSE IF r.code # expected_status
    THEN Return(FALSE, StatusMismatch(expected_status, r.code), r.fp)
    ELSE LET rd == fp_read(net) IN
         IF rd.exc # "none" THEN Raise(rd.exc, r.fp)
         ELSE IF Truthy(expected_regexp)
         THEN LET m == re_match(expected_regexp, rd.content) IN
              IF m = "TypeError" THEN Raise("TypeError", 0)
              ELSE IF m = "None" THEN Return(FALSE, ContentMismatch, 0)
              ELSE Return(TRUE, OK, 0)
         ELSE Return(TRUE, OK, 0)

(***************************************************************************)
(* Time                                                                    *)
(***************************************************************************)
\* timeout is handed to urlopen, which makes it the timeout of the socket:
\* it bounds every blocking socket operation on its own.  An operation that
\* completes takes less than the timeout, one that times out takes all of it.
Completes(timeout) == 0..(timeout - 1)

\* seconds urlopen may take: connecting, then waiting for the status line
head_secs(head, timeout) ==
    CASE head.kind = "refused" -> Completes(timeout)
      [] head.kind = "connect_timeout" -> {timeout}
      [] head.kind = "response_timeout" ->
            {c + timeout : c \in Completes(timeout)}
      [] OTHER ->
            {c + w : c \in Completes(timeout), w \in Completes(timeout)}

\* seconds fp.read() may take; none when it is not called
tail_secs(tail, timeout) ==
    CASE tail.read = "unread" -> {0}
      [] tail.read = "timeout" -> {timeout}
      [] OTHER -> Completes(timeout)

\* An unclosed response is closed when the interpreter finalizes the object.
\* A reference-counting interpreter does so when check_server_status
\* returns; any other may or may not have done so by then.
Finalizers == {"refcount", "tracing"}
finalized_on_return(finalizer) ==
    IF finalizer = "refcount" THEN {TRUE} ELSE BOOLEAN
left_open(n, gc) == IF gc THEN 0 ELSE n

(***************************************************************************)
(* main: the retry loop                                                    *)
(***************************************************************************)
VARIABLES
    max_retries,          \* module.params, fixed for the run
    initial_delay,
    delay_between_tries,
    expected_status,
    expected_regexp,
    timeout,
    finalizer,            \* how the interpreter running the module finalizes
    pc,                   \* position in main
    iter,                 \* how many values range(max_retries) has produced
    attempt,              \* the loop variable: <<>> while unbound, else <<n>>
    info,                 \* the local variable info
    result,               \* what the process ends with
    trace,                \* history: the sleeps and evaluator calls, in order
    last,                 \* history: network outcome and result of the latest call
    unclosed,             \* responses handed out by urlopen and still open
    elapsed               \* seconds spent sleeping and in evaluator calls

config == <<max_retries, initial_delay, delay_between_tries,
            expected_status, expected_regexp, timeout, finalizer>>
vars == <<max_retries, initial_delay, delay_between_tries, expected_status,
          expected_regexp, timeout, finalizer, pc, iter, attempt, info, result, trace,
          last, unclosed, elapsed>>

NoResult == [kind |-> "none", failed_attempts |-> 0, msg |-> EmptyInfo,
             info |-> EmptyInfo, exc |-> "none"]
NoCall   == [called |-> FALSE,
             net |-> [kind |-> "refused", status |-> 0, body |-> <<>>, read |-> "ok"],
             out |-> Raise("none", 0)]

\* trace entries; res is how an evaluator call ended
Sleep(site, secs) == [op |-> "sleep", site |-> site, secs |-> secs, res |-> "-"]
Check(out) ==
    [op |-> "check", site |-> "attempt", secs |-> 0,
     res |-> IF out.raised # "none" THEN "raised"
             ELSE IF out.success THEN "success" ELSE "failure"]

\* The parameters are drawn from two families of runs: one varies the
\* durations, the other the pattern and the interpreter.
TimedParams ==
    /\ initial_delay \in 0..MaxDelay
    /\ delay_between_tries \in 0..MaxDelay
    /\ timeout \in 1..MaxTimeout
    /\ expected_regexp = None
    /\ finalizer = "refcount"

PatternParams ==
    /\ initial_delay = 0
    /\ delay_between_tries = 0
    /\ timeout = 1
    /\ expected_regexp \in Regexps
    /\ finalizer \in Finalizers

Init ==
    /\ max_retries \in 0..MaxRetries
    /\ expected_status \in ExpectedStatuses
    /\ TimedParams \/ PatternParams
    /\ pc = "start"
    /\ iter = 0
    /\ attempt = <<>>
    /\ info = EmptyInfo
    /\ result = NoResult
    /\ trace = <<>>
    /\ last = NoCall
    /\ unclosed = 0
    /\ elapsed = 0

\* variant: "if initial_delay: time.sleep(initial_delay)"
initial_sleep_if_nonzero(delay) ==
    IF delay = 0 THEN <<>> ELSE <<Sleep("initial", delay)>>

\* time.sleep(initial_delay); info = ''
initial_sleep(delay) == <<Sleep("initial", delay)>>

InitialSleep ==
    /\ pc = "start"
    /\ trace' = trace \o initial_sleep(initial_delay)
    /\ info' = EmptyInfo
    /\ elapsed' = elapsed + initial_delay
    /\ pc' = "for"
    /\ UNCHANGED <<config, iter, attempt, result, last, unclosed>>

\* variant: range(max_retries + 1)
range_one_too_many(i, n) == i <= n

\* for attempt in range(max_retries): is there another value?
range_has_next(i, n) == i < n

\* variant: the "if attempt != 0" guard dropped
needs_delay_always(a) == TRUE

\* if attempt != 0:
needs_delay(a) == a # 0

ForNext ==
    /\ pc = "for"
    /\ IF range_has_next(iter, max_retries)
       THEN /\ attempt' = <<iter>>
            /\ iter' = iter + 1
            /\ pc' = IF needs_delay(iter) THEN "delay" ELSE "call"
       ELSE /\ pc' = "else"
            /\ UNCHANGED <<attempt, iter>>
    /\ UNCHANGED <<config, info, result, trace, last, unclosed, elapsed>>

\* time.sleep(delay_between_tries)
BetweenTriesSleep ==
    /\ pc = "delay"
    /\ trace' = Append(trace, Sleep("between", delay_between_tries))
    /\ elapsed' = elapsed + delay_between_tries
    /\ pc' = "call"
    /\ UNCHANGED <<config, iter, attempt, info, result, last, unclosed>>

\* module.exit_json(failed_attempts=attempt)
exit_json(a) ==
    [kind |-> "exit_json", failed_attempts |-> a, msg |-> EmptyInfo,
     info |-> EmptyInfo, exc |-> "none"]

\* module.fail_json(msg='Maximum attempts reached: ' + info, failed_attempts=attempt)
fail_json(i, a) ==
    [kind |-> "fail_json", failed_attempts |-> a,
     msg |-> Msg("Maximum attempts reached: ", <<>>), info |-> i, exc |-> "none"]

\* an exception nobody catches ends the process with a traceback
uncaught(e) ==
    [kind |-> "exception", failed_attempts |-> 0, msg |-> EmptyInfo,
     info |-> EmptyInfo, exc |-> e]

\* variant: success does not leave the loop
after_attempt_keeps_going(success) == "for"

\* if success: module.exit_json(...) ends the process, otherwise loop on
after_attempt(success) == IF success THEN "exit_json" ELSE "for"

\* variant: the detail of the first failure is kept
keeps_first_info(old, new) == IF old = EmptyInfo THEN new ELSE old

\* success, info = ...: info is overwritten by every call that returns
assigned_info(old, new) == new

\* success, info = check_server_status(...); if success: exit_json
Attempt ==
    /\ pc = "call"
    /\ \E head \in HeadOutcomes :
       \E tail \in IF reads_body(head, expected_status)
                   THEN BodyOutcomes ELSE {Unread} :
         LET net == Exchange(head, tail)
             out == check_server_status(net, expected_status, expected_regexp) IN
         /\ trace' = Append(trace, Check(out))
         /\ last' = [called |-> TRUE, net |-> net, out |-> out]
         /\ \E gc \in finalized_on_return(finalizer) :
              unclosed' = unclosed + left_open(out.unclosed, gc)
         /\ \E h \in head_secs(head, timeout), t \in tail_secs(tail, timeout) :
              elapsed' = elapsed + h + t
         /\ IF out.raised # "none"
            THEN /\ pc' = "exception"
                 /\ result' = uncaught(out.raised)
                 /\ UNCHANGED info
            ELSE /\ info' = assigned_info(info, out.info)
                 /\ pc' = after_attempt(out.success)
                 /\ result' = IF pc' = "exit_json"
                              THEN exit_json(attempt[1]) ELSE result
    /\ UNCHANGED <<config, iter, attempt>>

\* the else: branch of the for loop
Exhausted ==
    /\ pc = "else"
    /\ IF attempt = <<>>
       THEN /\ pc' = "exception"          \* attempt was never bound
            /\ result' = uncaught("UnboundLocalError")
       ELSE /\ pc' = "fail_json"
            /\ result' = fail_json(info, attempt[1])
    /\ UNCHANGED <<config, iter, attempt, info, trace, last, unclosed, elapsed>>

Next ==
    \/ InitialSleep
    \/ ForNext
    \/ BetweenTriesSleep
    \/ Attempt
    \/ Exhausted

Spec == Init /\ [][Next]_vars

\* main runs in one thread that nothing suspends for good: a step that can
\* be taken is taken.  How long the steps take has no part in which steps
\* there are, so the runs are those of the second family.
PatternRuns == Init /\ PatternParams
FairSpec == PatternRuns /\ [][Next]_vars /\ WF_vars(Next)

(***************************************************************************)
(* Derived history                                                         *)
(***************************************************************************)
Terminal == pc \in {"exit_json", "fail_json", "exception"}

Positions(P(_)) == {i \in DOMAIN trace : P(trace[i])}

IsCheck(e)   == e.op = "check"
IsFailure(e) == e.res = "failure"
IsBetween(e) == e.site = "between"
IsInitial(e) == e.site = "initial"

Calls         == Cardinality(Positions(IsCheck))     \* evaluator calls so far
Failures      == Cardinality(Positions(IsFailure))   \* calls that returned failure
BetweenSleeps == Cardinality(Positions(IsBetween))
InitialSleeps == Cardinality(Positions(IsInitial))

\* the run ended by reporting: success or exhaustion
Reported == result.kind \in {"exit_json", "fail_json"}

TypeOK ==
    /\ pc \in {"start", "for", "delay", "call", "else",
               "exit_json", "fail_json", "exception"}
    /\ iter \in 0..max_retries
    /\ Len(attempt) <= 1
    /\ result.kind \in {"none", "exit_json", "fail_json", "exception"}

(***************************************************************************)
(* Claims about the retry loop                                             *)
(***************************************************************************)
ChecksUpTo(i) == Cardinality({j \in 1..i : IsCheck(trace[j])})

\* C1: for max_retries = N >= 1, a run in which every evaluator call
\* returned failure ends in fail_json after exactly N calls, and the
\* attempt count it reports (failed_attempts) is N.
C1_ExhaustionReportsN ==
    (Terminal /\ max_retries >= 1 /\ Failures = Calls) =>
        /\ result.kind = "fail_json"
        /\ Calls = max_retries
        /\ result.failed_attempts = max_retries

\* C2 as stated: when attempt k is the first success the run ends in
\* exit_json and the attempt count it reports is k.
C2_SuccessReportsK ==
    \A i \in DOMAIN trace :
        trace[i].res = "success" =>
            /\ result.kind = "exit_json"
            /\ result.failed_attempts = ChecksUpTo(i)

\* C2 amended: when attempt k is the first success the run ends in
\* exit_json, that call is the last entry of the trace for good (no attempt
\* k+1..N is made), and the reported failed_attempts is k - 1.
C2_FirstSuccessStops ==
    \A i \in DOMAIN trace :
        trace[i].res = "success" =>
            /\ i = Len(trace)
            /\ pc = "exit_json"
            /\ result = exit_json(ChecksUpTo(i) - 1)
            /\ ChecksUpTo(i) <= max_retries
            /\ Failures = ChecksUpTo(i) - 1

C2_Witness ==
    /\ pc = "exit_json"
    /\ Calls = 2
    /\ max_retries = 3
    /\ result.failed_attempts = 1

\* C3 as stated: the evaluator is never called more than max_retries times
\* and every reported attempt count lies in 1..max_retries.
C3_CountInOneToN ==
    /\ Calls <= max_retries
    /\ Reported => result.failed_attempts \in 1..max_retries

\* C3 amended: the evaluator is never called more than max_retries times;
\* in every reported result the number of calls made lies in
\* 1..max_retries and the reported failed_attempts in 0..max_retries.
C3_CountInZeroToN ==
    /\ Calls <= max_retries
    /\ Reported => /\ Calls \in 1..max_retries
                   /\ result.failed_attempts \in 0..max_retries

C3_Witness ==
    /\ result.kind = "fail_json"
    /\ max_retries >= 2
    /\ Calls = max_retries

\* C4: the initial_delay sleep is the first thing every run does, it is
\* done whatever max_retries and initial_delay are, and it is never
\* repeated: no initial sleep follows an evaluator call.
C4_InitialDelayOnce ==
    /\ pc = "start" => trace = <<>>
    /\ pc # "start" => /\ trace # <<>>
                       /\ trace[1] = Sleep("initial", initial_delay)
                       /\ InitialSleeps = 1
    /\ \A i \in DOMAIN trace : IsCheck(trace[i]) => i > 1

C4_Witness ==
    /\ Terminal
    /\ max_retries = 1
    /\ initial_delay = 0
    /\ Calls = 1
    /\ InitialSleeps = 1

\* C5: every evaluator call but the first directly follows one
\* delay_between_tries sleep, which directly follows the previous call; the
\* first call directly follows the initial sleep; no such sleep ends a run.
\* So a run that made c >= 1 calls ends with c - 1 of these sleeps.
C5_OneDelayBetweenCalls ==
    /\ \A i \in DOMAIN trace :
          /\ IsBetween(trace[i]) =>
                /\ i > 1
                /\ IsCheck(trace[i - 1])
                /\ trace[i].secs = delay_between_tries
                /\ IF i = Len(trace) THEN pc = "call"
                                     ELSE IsCheck(trace[i + 1])
          /\ (IsCheck(trace[i]) /\ i > 1) =>
                IF ChecksUpTo(i) = 1 THEN IsInitial(trace[i - 1])
                                     ELSE IsBetween(trace[i - 1])
    /\ (Terminal /\ Calls >= 1) =>
          /\ IsCheck(trace[Len(trace)])
          /\ BetweenSleeps = Calls - 1

C5_Witness ==
    /\ Terminal
    /\ Calls = 3
    /\ BetweenSleeps = 2

(***************************************************************************)
(* Claims about the evaluator                                              *)
(***************************************************************************)
\* the latest call got an HTTP response with a status code
GotResponse == last.called /\ last.net.kind = "response"

\* C6: a response with any status code s, 4xx and 5xx included, is compared
\* with expected_status: with no pattern configured (and no body read timing
\* out) the attempt succeeds exactly when s = expected_status.
C6_StatusComparedForAnyCode ==
    (GotResponse /\ expected_regexp = None /\ last.net.read # "timeout") =>
        /\ last.out.raised = "none"
        /\ last.out.success <=> (last.net.status = expected_status)

\* C7: a response whose status differs from expected_status is a failure
\* whose detail states both the expected and the actual status code.
C7_MismatchNamesBothCodes ==
    (GotResponse /\ last.net.status # expected_status) =>
        /\ last.out.raised = "none"
        /\ ~last.out.success
        /\ Mentions(last.out.info, expected_status)
        /\ Mentions(last.out.info, last.net.status)

\* C8: for a 2xx response with the expected status whose body arrives, the
\* evaluator returns (True, 'OK') when no pattern is configured or the
\* pattern matches at offset 0 of the body, returns (False, 'Content did
\* not match expected regexp.') otherwise, and does nothing else.
C8_BodyPatternDecides ==
    (/\ GotResponse
     /\ last.net.status = expected_status
     /\ last.net.status \in 200..299
     /\ last.net.read = "ok") =>
        /\ last.out.raised = "none"
        /\ IF \/ expected_regexp = None
              \/ PrefixMatch(expected_regexp.data, last.net.body)
           THEN last.out.success /\ last.out.info = OK
           ELSE ~last.out.success /\ last.out.info = ContentMismatch

\* C9: with max_retries >= 1 no fault of an attempt ends the run anywhere
\* but in exit_json or fail_json: every evaluator call returns, and a
\* failure with attempts left leads to the next attempt.
C9_FaultsNeverCrash ==
    max_retries >= 1 =>
        /\ pc # "exception"
        /\ \A i \in DOMAIN trace : trace[i].res # "raised"

\* a socket operation of the latest call ran into the timeout: while
\* connecting, while waiting for the response, or while reading the body
TimedOut ==
    /\ last.called
    /\ \/ last.net.kind \in {"connect_timeout", "response_timeout"}
       \/ last.net.read = "timeout"

\* C10: an attempt that runs into the timeout in any phase is a failed
\* attempt (the evaluator returns failure) and the run goes on to the next
\* attempt or to exhaustion.
C10_TimeoutIsFailedAttempt ==
    TimedOut =>
        /\ last.out.raised = "none"
        /\ ~last.out.success
        /\ pc # "exception"

(***************************************************************************)
(* Claims about the reported result, time and resources                    *)
(***************************************************************************)
\* C11 as stated: every reported result carries the detail of the last
\* evaluator call: that of the final failed attempt on exhaustion, 'OK' on
\* success.
C11_ReportsLastDetail ==
    Reported => /\ result.info = last.out.info
                /\ result.kind = "exit_json" => result.info = OK

\* C11 amended: on exhaustion the message is 'Maximum attempts reached: '
\* followed by the detail of the latest, N-th, call, which failed; on
\* success no detail is reported, and the detail held in info is 'OK'.
C11_ExhaustionReportsLastDetail ==
    /\ result.kind = "fail_json" =>
          /\ result.msg = Msg("Maximum attempts reached: ", <<>>)
          /\ result.info = last.out.info
          /\ last.out.raised = "none" /\ ~last.out.success
          /\ Calls = max_retries
    /\ result.kind = "exit_json" =>
          /\ result.info = EmptyInfo
          /\ info = OK
          /\ last.out.info = OK

C11_Witness ==
    /\ result.kind = "fail_json"
    /\ Calls = 2
    /\ result.info = StatusMismatch(200, 204)

EvaluatorRaised == \E i \in DOMAIN trace : trace[i].res = "raised"

\* C14: with max_retries >= 1 every run in which the evaluator returns from
\* each call ends, and ends in exactly one of exit_json and fail_json, for
\* good: in exit_json when its latest call succeeded (also when that was
\* call N: the else branch is then not entered), in fail_json otherwise.
C14_EndsInOneOutcome ==
    /\ <>Terminal
    /\ [](max_retries >= 1 /\ Terminal /\ ~EvaluatorRaised =>
             /\ Reported
             /\ pc = result.kind
             /\ (pc = "exit_json") <=> last.out.success)
    /\ [](last.out.success => pc \notin {"for", "else", "fail_json"})
    /\ [][Reported => UNCHANGED <<pc, result>>]_vars

C14_Witness ==
    /\ pc = "exit_json"
    /\ max_retries >= 2
    /\ Calls = max_retries

\* C15: a run started with max_retries <= 0 does not sleep, does not reach
\* the else branch of a loop without iterations, and ends neither in
\* fail_json nor with an uncaught exception.
C15_RejectsEmptyBudget ==
    max_retries <= 0 =>
        /\ InitialSleeps = 0
        /\ pc # "else"
        /\ result.kind \notin {"fail_json", "exception"}

\* C16: no response is left open once the evaluator has returned: in a run
\* whose evaluator calls all returned, whenever main sleeps, starts an
\* attempt or has ended, no response handed out by urlopen is still open.
C16_NoOpenResponse == ~EvaluatorRaised => unclosed = 0

\* C17: every reported failed_attempts is the number of evaluator calls that
\* returned failure in the run.
C17_CountsFailedCalls ==
    Reported => result.failed_attempts = Failures

====
